---- MODULE Spec2Model ----
(***************************************************************************)
(* Model of fripack's binary patching engine (src/binary.rs) as driven by  *)
(* Builder::build_android_so (src/builder.rs).                             *)
(*                                                                         *)
(* Byte buffers are sequences of 0..255.  Offsets are 0-based as in the    *)
(* Rust code; Slice(buf, a, b) is buf[a..b].                               *)
(***************************************************************************)
EXTENDS Integers, Sequences, FiniteSets, TLC

\* ---------------------------------------------------------------- bounds
\* Largest number of bytes the container rewrite may insert before the
\* pre-existing content.
MaxShift == 1
\* Extra body bytes beyond whole multiples of the structure size.
MaxSlack == 1
\* Longest payload drawn from PayloadBytes.
MaxPayloadLen == 2

\* ------------------------------------------------------ program constants
\* EmbeddedConfig::default / EmbeddedConfig::new
MAGIC1 == 218105633          \* 0x0d000721
MAGIC2 == 529157675          \* 0x1f8a4e2b
VERSION == 1
\* std::mem::size_of::<EmbeddedConfig>() for #[repr(C, packed)]: 5 * 4 + 1
SizeOfEmbeddedConfig == 21
\* minimum length accepted by BinaryProcessor::new
MinElfLen == 16
\* size of the ELF file header the container parser needs (ELF64)
ElfHeaderSize == 64
\* bytes of section-header table the container writer appends per section
ShdrSize == 64

ELF_MAGIC == <<127, 69, 76, 70>>     \* b"\x7fELF"
SECTION_NAME == ".fripack_config"
NotFound == -1                        \* Option::None of find_embedded_config

\* ---------------------------------------------------------- byte helpers
Slice(buf, a, b) == SubSeq(buf, a + 1, b)

Zeros(n) == [i \in 1..n |-> 0]

Min(a, b) == IF a < b THEN a ELSE b

\* usize::saturating_sub
SaturatingSub(a, b) == IF a >= b THEN a - b ELSE 0

\* byte k (0 = least significant) of the two's-complement form of an i32
ByteOfI32(x, k) ==
    LET Pow == <<1, 256, 65536, 16777216>>
        Nat0(v) == (v \div Pow[k + 1]) % 256
    IN  IF x >= 0 THEN Nat0(x) ELSE 255 - Nat0(-x - 1)

\* faulty variant: the bytes come out most significant first
ToBeBytes(x) == [k \in 1..4 |-> ByteOfI32(x, 4 - k)]

\* i32::to_le_bytes
ToLeBytes(x) == [k \in 1..4 |-> ByteOfI32(x, k - 1)]

\* ------------------------------------------------- EmbeddedConfig (struct)
\* EmbeddedConfig::new: the tags and the version are fixed, the rest given
EmbeddedConfigNew(data_size, data_offset, data_xz) ==
    [magic1 |-> MAGIC1, magic2 |-> MAGIC2, version |-> VERSION,
     data_size |-> data_size, data_offset |-> data_offset, data_xz |-> data_xz]

\* Default for EmbeddedConfig: what the binary producer bakes into the .so
EmbeddedConfigDefault ==
    [magic1 |-> MAGIC1, magic2 |-> MAGIC2, version |-> VERSION,
     data_size |-> 0, data_offset |-> 0, data_xz |-> FALSE]

\* The object in memory under #[repr(C, packed)] on a little-endian host:
\* the fields in declaration order, no padding, bool as one byte 0/1.
MemoryImage(cfg) ==
    ToLeBytes(cfg.magic1) \o ToLeBytes(cfg.magic2) \o ToLeBytes(cfg.version)
      \o ToLeBytes(cfg.data_size) \o ToLeBytes(cfg.data_offset)
      \o <<IF cfg.data_xz THEN 1 ELSE 0>>

\* EmbeddedConfig::as_bytes: a zeroed vector of size_of bytes, then
\* copy_nonoverlapping of size_of bytes from the object
AsBytes(cfg) ==
    [k \in 1..SizeOfEmbeddedConfig |-> MemoryImage(cfg)[k]]

\* --------------------------------------------------------- BinaryProcessor
\* BinaryProcessor::new: the condition under which it bails
NewRejects(buf) ==
    Len(buf) < MinElfLen \/ Slice(buf, 0, 4) # ELF_MAGIC

\* the comparison of line 79 at index i
TagsAt(buf, i) ==
    /\ Slice(buf, i, i + 4) = ToLeBytes(MAGIC1)
    /\ Slice(buf, i + 4, i + 8) = ToLeBytes(MAGIC2)

\* faulty variant: the loop walks the whole buffer
ScanLimitWhole(buf) == Len(buf)

\* the exclusive upper end of the range the loop walks
ScanLimit(buf) == SaturatingSub(Len(buf), SizeOfEmbeddedConfig)

\* the indices of 0..limit at which the loop's comparison succeeds
ScanHits(buf) == {i \in 0..(ScanLimit(buf) - 1) : TagsAt(buf, i)}

\* faulty variant: the scan keeps going and returns the last match
FindEmbeddedConfigLast(buf) ==
    IF ScanHits(buf) = {} THEN NotFound
    ELSE CHOOSE i \in ScanHits(buf) : \A j \in ScanHits(buf) : i >= j

\* BinaryProcessor::find_embedded_config
\* for i in 0..limit { if tags at i { return Some(i) } }  None :
\* the loop walks upwards and returns at the first index that compares equal
FindEmbeddedConfig(buf) ==
    IF ScanHits(buf) = {} THEN NotFound
    ELSE CHOOSE i \in ScanHits(buf) : \A j \in ScanHits(buf) : i <= j

\* faulty variant: the offset found before the rewrite is used again
LocateOffsetStale(pre, post) == FindEmbeddedConfig(pre)

\* binary.rs:112-114: the scan runs on self.data as it is after the rewrite
\* (post), not on the buffer the processor was built from (pre)
LocateOffset(pre, post) == FindEmbeddedConfig(post)

\* BinaryProcessor::compress_xz: an .xz stream.  The stream is modelled by
\* its framing: the 6-byte stream magic, the length of the block, the block,
\* and the 2-byte footer magic; the output never has the length of the input.
XZ_HEADER == <<253, 55, 122, 88, 90, 0>>
XZ_FOOTER == <<89, 90>>
CompressXz(d) == XZ_HEADER \o <<Len(d)>> \o d \o XZ_FOOTER

\* the matching decompressor
DecompressXz(z) ==
    LET n == z[Len(XZ_HEADER) + 1]
    IN  Slice(z, Len(XZ_HEADER) + 1, Len(XZ_HEADER) + 1 + n)

\* lines 88-92: the bytes that go into the section
FinalData(config_data, xz) ==
    IF xz THEN CompressXz(config_data) ELSE config_data

\* ---------------------------------------- the container (object crate)
\* The section table of an input container: .text then .data share the
\* bytes after the file header.
InputSections(buf) ==
    LET body == Len(buf) - ElfHeaderSize
        mid  == ElfHeaderSize + (body \div 2)
    IN  << [name |-> ".text", off |-> ElfHeaderSize, size |-> mid - ElfHeaderSize,
            flags |-> {"ALLOC", "EXECINSTR"}],
           [name |-> ".data", off |-> mid, size |-> Len(buf) - mid,
            flags |-> {"ALLOC", "WRITE"}] >>

\* object::build::elf::Builder::read succeeds on this buffer
ElfReadable(buf, wf) ==
    /\ wf
    /\ Len(buf) >= ElfHeaderSize
    /\ Slice(buf, 0, 4) = ELF_MAGIC

\* faulty variant: the added section carries no flags
NewSectionNoFlags(old, final, shift) ==
    [name |-> SECTION_NAME, off |-> Len(old) + shift + 1, size |-> Len(final),
     flags |-> {}]

\* line 96-101: the section added to the builder; sh_offset asks for a place
\* one byte past the end of the old file
NewSection(old, final, shift) ==
    [name |-> SECTION_NAME, off |-> Len(old) + shift + 1, size |-> Len(final),
     flags |-> {"ALLOC", "EXECINSTR"}]

\* binary.write: the whole file is laid out again.  The file header stays,
\* the old content follows (moved by `shift` bytes when the writer inserts
\* bytes before it), then the new section at its sh_offset, then the
\* section-header entry for it.
RewriteBytes(old, final, shift) ==
    Slice(old, 0, ElfHeaderSize) \o Zeros(shift)
      \o Slice(old, ElfHeaderSize, Len(old))
      \o Zeros(1) \o final \o Zeros(ShdrSize)

\* faulty variant: the section is added to an empty builder, not to the one
\* read from the file
RewriteSectionsFresh(secs, old, final, shift) ==
    << NewSection(old, final, shift) >>

\* lines 95-104: the section table of the rewritten file: the sections read,
\* in their order, then the added one
RewriteSections(secs, old, final, shift) ==
    [k \in 1..Len(secs) |-> [secs[k] EXCEPT !.off = @ + shift]]
      \o << NewSection(old, final, shift) >>

\* object::File::section_by_name(..).file_range().0 : the file offset of the
\* first section with that name, or NotFound
SectionOffsetByName(secs, name) ==
    LET hits == {k \in 1..Len(secs) : secs[k].name = name}
    IN  IF hits = {} THEN NotFound
        ELSE secs[CHOOSE k \in hits : \A j \in hits : k <= j].off

\* lines 116-124: the structure written back.  The `as i32` casts keep the
\* value of every length and offset below 2^31, which all of the model's are.
PatchedConfig(config_data, secOff, off, xz) ==
    EmbeddedConfigNew(Len(config_data), secOff - off, xz)

\* faulty variant: the copy starts one byte late
CopyFromSliceLate(buf, off, bytes) ==
    [k \in 1..Len(buf) |->
        IF k - 1 >= off + 1 /\ k - 1 < off + 1 + Len(bytes)
        THEN bytes[k - off - 1] ELSE buf[k]]

\* lines 127-128: self.data[offset..offset + len].copy_from_slice(bytes)
CopyFromSlice(buf, off, bytes) ==
    [k \in 1..Len(buf) |->
        IF k - 1 >= off /\ k - 1 < off + Len(bytes) THEN bytes[k - off] ELSE buf[k]]

\* ------------------------------------------------------------------ inputs
\* write `bytes` over buf from 0-based position p, cut at the end of buf
Overlay(buf, p, bytes) ==
    [k \in 1..Len(buf) |->
        IF k - 1 >= p /\ k - 1 < p + Len(bytes) THEN bytes[k - p] ELSE buf[k]]

RECURSIVE OverlayAll(_, _, _)
OverlayAll(buf, ps, bytes) ==
    IF ps = {} THEN buf
    ELSE LET p == CHOOSE q \in ps : \A r \in ps : q <= r
         IN  OverlayAll(Overlay(buf, p, bytes), ps \ {p}, bytes)

\* lengths of prebuilt files: too short for new(), between new()'s minimum
\* and the structure size, and whole containers whose body has room for one
\* or two structures and a few bytes more
ShortLens == {0, 3, MinElfLen - 1, MinElfLen, SizeOfEmbeddedConfig - 1,
              SizeOfEmbeddedConfig, SizeOfEmbeddedConfig + 1}
LongLens ==
    {ElfHeaderSize + n * SizeOfEmbeddedConfig + k : n \in 1..2, k \in 1..(MaxSlack + 1)}
InputLens == ShortLens \cup LongLens

\* where the tag sequence may start in a file of length L: in a container,
\* anywhere in the body (at its start, at its end, and so close to the end
\* that only the tags fit); in a short file, wherever 8 bytes fit
Positions(L) ==
    IF L >= ElfHeaderSize
    THEN {p \in {ElfHeaderSize, ElfHeaderSize + 1, L - SizeOfEmbeddedConfig - 1,
                 L - SizeOfEmbeddedConfig, L - 8} : p >= ElfHeaderSize}
    ELSE {p \in {0, 4, L - 8} : p >= 0 /\ p + 8 <= L}

Placements(L) == {ps \in SUBSET Positions(L) : Cardinality(ps) <= 2}

\* a prebuilt file: zero filler, the default structure at each position of
\* ps, and the ELF magic in front when goodMagic
MakeInput(L, ps, goodMagic) ==
    LET withCfg == OverlayAll(Zeros(L), ps, AsBytes(EmbeddedConfigDefault))
    IN  IF goodMagic THEN Overlay(withCfg, 0, ELF_MAGIC) ELSE withCfg

PayloadBytes == {123}
Payloads ==
    UNION {[1..n -> PayloadBytes] : n \in 0..MaxPayloadLen}
      \cup {ToLeBytes(MAGIC1) \o ToLeBytes(MAGIC2)}

\* ------------------------------------------------------------------- state
VARIABLES
    pc,           \* where build_android_so stands
    prebuilt,     \* prebuilt_data: the bytes of the prebuilt file
    wellFormed,   \* whether the container parser accepts the file's tables
    config_data,  \* the serialized payload handed to add_embedded_config_data
    use_xz,       \* target.xz
    hasProcessor, \* a BinaryProcessor exists
    data,         \* BinaryProcessor.data
    sections,     \* the section table of the container held in data
    final_data,   \* final_data of add_embedded_config_data_section
    offset,       \* offset of add_embedded_config_data (NotFound before)
    written,      \* the structure written by the patch (<<>> before)
    prePatch,     \* data as it was when the patch started
    scanned,      \* <<[res, buf]>>: the last outside find_embedded_config() call
    outFile,      \* the bytes written to the output file (<<>> = none)
    outWritten,   \* an output file has been written
    trace,        \* the engine states entered, in order
    steps,        \* the engine's steps performed, in order
    scanRun,      \* one find_embedded_config / patch run on a raw buffer
    batch,        \* one run of the build loop over several targets
    resolve,      \* one run of FripackConfig::resolve_inheritance
    matchRun,     \* one call of Downloader::find_matching_file
    download      \* the cache and the calls of download_prebuilt_file

vars == <<pc, prebuilt, wellFormed, config_data, use_xz, hasProcessor, data,
          sections, final_data, offset, written, prePatch, scanned, outFile,
          outWritten, trace, steps, scanRun, batch, resolve, matchRun,
          download>>

\* the variables of the patching engine, and those of the other components
engineVars == <<pc, prebuilt, wellFormed, config_data, use_xz, hasProcessor,
                data, sections, final_data, offset, written, prePatch, scanned,
                outFile, outWritten, trace, steps>>
Idle == [pc |-> "idle"]

\* the state of a component that takes no part in a run
EngineIdle ==
    /\ pc = "idle"
    /\ prebuilt = <<>>
    /\ wellFormed = FALSE
    /\ config_data = <<>>
    /\ use_xz = FALSE
    /\ hasProcessor = FALSE
    /\ data = <<>>
    /\ sections = <<>>
    /\ final_data = <<>>
    /\ offset = NotFound
    /\ written = <<>>
    /\ prePatch = <<>>
    /\ scanned = <<>>
    /\ outFile = <<>>
    /\ outWritten = FALSE
    /\ trace = <<>>
    /\ steps = <<>>

Init ==
    /\ scanRun = Idle
    /\ batch = Idle
    /\ resolve = Idle
    /\ matchRun = Idle
    /\ download = Idle
    /\ pc = "start"
    /\ \E L \in InputLens, gm \in BOOLEAN :
         \E ps \in Placements(L) :
            /\ prebuilt = MakeInput(L, ps, gm)
            /\ wellFormed \in (IF gm /\ L >= ElfHeaderSize THEN BOOLEAN ELSE {FALSE})
    /\ config_data \in Payloads
    /\ use_xz \in BOOLEAN
    /\ hasProcessor = FALSE
    /\ data = <<>>
    /\ sections = <<>>
    /\ final_data = <<>>
    /\ offset = NotFound
    /\ written = <<>>
    /\ prePatch = <<>>
    /\ scanned = <<>>
    /\ outFile = <<>>
    /\ outWritten = FALSE
    /\ trace = <<>>
    /\ steps = <<>>

\* ----------------------------------------------------------------- actions
\* builder.rs:65  BinaryProcessor::new(prebuilt_data)?
\* A rejected buffer returns Err out of build_android_so; no processor exists.
New ==
    /\ UNCHANGED <<scanRun, batch, resolve, matchRun, download>>
    /\ pc = "start"
    /\ steps' = Append(steps, "validate")
    /\ IF NewRejects(prebuilt)
       THEN /\ pc' = "error"
            /\ UNCHANGED <<hasProcessor, data, sections, trace>>
       ELSE /\ pc' = "validated"
            /\ hasProcessor' = TRUE
            /\ data' = prebuilt
            /\ sections' = IF ElfReadable(prebuilt, wellFormed)
                           THEN InputSections(prebuilt) ELSE <<>>
            /\ trace' = Append(trace, "Validated")
    /\ UNCHANGED <<prebuilt, wellFormed, config_data, use_xz, final_data, offset,
                   written, prePatch, scanned, outFile, outWritten>>

\* a call of the public find_embedded_config(&self) on the processor, before
\* or after add_embedded_config_data
FindCall ==
    /\ UNCHANGED <<scanRun, batch, resolve, matchRun, download>>
    /\ pc \in {"validated", "patched"}
    /\ hasProcessor
    /\ scanned' = << [res |-> FindEmbeddedConfig(data), buf |-> data] >>
    /\ UNCHANGED <<pc, prebuilt, wellFormed, config_data, use_xz, hasProcessor,
                   data, sections, final_data, offset, written, prePatch,
                   outFile, outWritten, trace, steps>>

\* binary.rs:88-92  final_data, when compress_xz (if asked for) succeeds
Encode ==
    /\ UNCHANGED <<scanRun, batch, resolve, matchRun, download>>
    /\ pc = "validated"
    /\ final_data' = FinalData(config_data, use_xz)
    /\ steps' = IF use_xz THEN Append(steps, "compress") ELSE steps
    /\ pc' = "encoded"
    /\ UNCHANGED <<prebuilt, wellFormed, config_data, use_xz, hasProcessor, data,
                   sections, offset, written, prePatch, scanned, outFile,
                   outWritten, trace>>

\* faulty variant: a failed compression falls back to the uncompressed bytes
EncodeFailFallback ==
    /\ UNCHANGED <<scanRun, batch, resolve, matchRun, download>>
    /\ pc = "validated"
    /\ use_xz
    /\ final_data' = config_data
    /\ steps' = Append(steps, "compress")
    /\ pc' = "encoded"
    /\ UNCHANGED <<prebuilt, wellFormed, config_data, use_xz, hasProcessor, data,
                   sections, offset, written, prePatch, scanned, outFile,
                   outWritten, trace>>

\* binary.rs:89  compress_xz(..)? returns Err (the encoder fails); the
\* unwrap() of builder.rs:76 panics
EncodeFail ==
    /\ UNCHANGED <<scanRun, batch, resolve, matchRun, download>>
    /\ pc = "validated"
    /\ use_xz
    /\ steps' = Append(steps, "compress")
    /\ pc' = "panicked"
    /\ UNCHANGED <<prebuilt, wellFormed, config_data, use_xz, hasProcessor, data,
                   sections, final_data, offset, written, prePatch, scanned,
                   outFile, outWritten, trace>>

\* binary.rs:94-105  read the container, add the section, write it back
Inject ==
    /\ UNCHANGED <<scanRun, batch, resolve, matchRun, download>>
    /\ pc = "encoded"
    /\ ElfReadable(data, wellFormed)
    /\ \E shift \in 0..MaxShift :
         /\ data' = RewriteBytes(data, final_data, shift)
         /\ sections' = RewriteSections(sections, data, final_data, shift)
    /\ steps' = steps \o <<"parse", "write">>
    /\ trace' = Append(trace, "Injected")
    /\ pc' = "injected"
    /\ UNCHANGED <<prebuilt, wellFormed, config_data, use_xz, hasProcessor,
                   final_data, offset, written, prePatch, scanned, outFile,
                   outWritten>>

\* binary.rs:95  Builder::read(..)? returns Err: self.data is still the input
InjectReadFail ==
    /\ UNCHANGED <<scanRun, batch, resolve, matchRun, download>>
    /\ pc = "encoded"
    /\ ~ElfReadable(data, wellFormed)
    /\ steps' = Append(steps, "parse")
    /\ pc' = "panicked"
    /\ UNCHANGED <<prebuilt, wellFormed, config_data, use_xz, hasProcessor, data,
                   sections, final_data, offset, written, prePatch, scanned,
                   outFile, outWritten, trace>>

\* binary.rs:103-104  self.data = vec![]; binary.write(&mut self.data)? returns
\* Err: self.data holds what the writer had put out until then
InjectWriteFail ==
    /\ UNCHANGED <<scanRun, batch, resolve, matchRun, download>>
    /\ pc = "encoded"
    /\ ElfReadable(data, wellFormed)
    /\ \E n \in {0, ElfHeaderSize} : data' = Slice(data, 0, n)
    /\ sections' = <<>>
    /\ steps' = steps \o <<"parse", "write">>
    /\ pc' = "panicked"
    /\ UNCHANGED <<prebuilt, wellFormed, config_data, use_xz, hasProcessor,
                   final_data, offset, written, prePatch, scanned, outFile,
                   outWritten, trace>>

\* faulty variant: a scan that finds nothing sends the engine back to inject again
LocateRetry ==
    /\ UNCHANGED <<scanRun, batch, resolve, matchRun, download>>
    /\ pc = "injected"
    /\ steps' = steps \o <<"parse", "scan">>
    /\ LET found == LocateOffset(prebuilt, data)
       IN  IF found = NotFound
           THEN /\ pc' = "encoded"
                /\ UNCHANGED <<offset, trace>>
           ELSE /\ pc' = "located"
                /\ offset' = found
                /\ trace' = Append(trace, "Located")
    /\ UNCHANGED <<prebuilt, wellFormed, config_data, use_xz, hasProcessor, data,
                   sections, final_data, written, prePatch, scanned, outFile,
                   outWritten>>

\* binary.rs:110-114  parse the rewritten file and scan it for the structure
Locate ==
    /\ UNCHANGED <<scanRun, batch, resolve, matchRun, download>>
    /\ pc = "injected"
    /\ steps' = steps \o <<"parse", "scan">>
    /\ LET found == LocateOffset(prebuilt, data)
       IN  IF found = NotFound
           THEN /\ pc' = "panicked"
                /\ UNCHANGED <<offset, trace>>
           ELSE /\ pc' = "located"
                /\ offset' = found
                /\ trace' = Append(trace, "Located")
    /\ UNCHANGED <<prebuilt, wellFormed, config_data, use_xz, hasProcessor, data,
                   sections, final_data, written, prePatch, scanned, outFile,
                   outWritten>>

\* binary.rs:116-130  build the structure and copy it over the old one
Patch ==
    /\ UNCHANGED <<scanRun, batch, resolve, matchRun, download>>
    /\ pc = "located"
    /\ steps' = steps \o <<"lookup", "patch">>
    /\ LET secOff == SectionOffsetByName(sections, SECTION_NAME)
       IN  IF secOff = NotFound
           THEN /\ pc' = "panicked"
                /\ UNCHANGED <<data, written, prePatch, trace>>
           ELSE LET cfg == PatchedConfig(config_data, secOff, offset, use_xz)
                IN  /\ prePatch' = data
                    /\ written' = AsBytes(cfg)
                    /\ data' = CopyFromSlice(data, offset, AsBytes(cfg))
                    /\ trace' = Append(trace, "Patched")
                    /\ pc' = "patched"
    /\ UNCHANGED <<prebuilt, wellFormed, config_data, use_xz, hasProcessor,
                   sections, final_data, offset, scanned, outFile, outWritten>>

\* builder.rs:83-84  processor.into_data() goes to the output file
WriteOutput ==
    /\ UNCHANGED <<scanRun, batch, resolve, matchRun, download>>
    /\ pc = "patched"
    /\ outFile' = data
    /\ outWritten' = TRUE
    /\ hasProcessor' = FALSE
    /\ pc' = "done"
    /\ UNCHANGED <<prebuilt, wellFormed, config_data, use_xz, data, sections,
                   final_data, offset, written, prePatch, scanned, trace, steps>>

Next ==
    \/ New
    \/ FindCall
    \/ Encode
    \/ EncodeFail
    \/ Inject
    \/ InjectReadFail
    \/ InjectWriteFail
    \/ Locate
    \/ Patch
    \/ WriteOutput

Spec == Init /\ [][Next]_vars

\* ------------------------------------------------------ claim vocabulary
\* the 8 bytes tag_a || tag_b, written out
TAG_BYTES == <<33, 7, 0, 13, 43, 78, 138, 31>>

\* the tag sequence starts at 0-based offset i of buf
HasTags(buf, i) ==
    /\ i >= 0
    /\ i + 8 <= Len(buf)
    /\ \A k \in 1..8 : buf[i + k] = TAG_BYTES[k]

MatchSet(buf) == {i \in 0..Len(buf) : HasTags(buf, i)}

\* the little-endian signed 32-bit integer at 0-based offset o
DecodeI32(buf, o) ==
    buf[o + 1] + 256 * buf[o + 2] + 65536 * buf[o + 3]
      + 16777216 * (IF buf[o + 4] >= 128 THEN buf[o + 4] - 256 ELSE buf[o + 4])

\* the input is a container the engine can work on
ValidContainer == ElfReadable(prebuilt, wellFormed)

\* C1 (as claimed): a find_embedded_config() call returns an offset if and
\* only if the tag sequence starts at some i with
\* 0 <= i <= length - structure_size, the upper end included; a buffer
\* shorter than the structure gives "not found".
C1_ScanFindsUpToInclusiveEnd ==
    \A k \in 1..Len(scanned) :
        LET b == scanned[k].buf
            r == scanned[k].res
        IN  /\ (r # NotFound) <=>
                 (\E i \in 0..(Len(b) - SizeOfEmbeddedConfig) : HasTags(b, i))
            /\ Len(b) < SizeOfEmbeddedConfig => r = NotFound

\* C2: an offset returned by the scan carries the tag sequence and no
\* smaller offset does; the patch writes the structure at that first match
\* of the rewritten buffer and leaves every later match as it was.
C2_FirstMatchWins ==
    /\ \A k \in 1..Len(scanned) :
         scanned[k].res # NotFound =>
           /\ HasTags(scanned[k].buf, scanned[k].res)
           /\ \A j \in 0..(scanned[k].res - 1) : ~HasTags(scanned[k].buf, j)
    /\ pc = "located" =>
         /\ HasTags(data, offset)
         /\ \A j \in 0..(offset - 1) : ~HasTags(data, j)
    /\ pc = "patched" =>
         /\ HasTags(prePatch, offset)
         /\ \A j \in 0..(offset - 1) : ~HasTags(prePatch, j)
         /\ Slice(data, offset, offset + SizeOfEmbeddedConfig) = written
         /\ \A j \in MatchSet(prePatch) :
              j >= offset + SizeOfEmbeddedConfig =>
                Slice(data, j, Min(j + SizeOfEmbeddedConfig, Len(data)))
                  = Slice(prePatch, j, Min(j + SizeOfEmbeddedConfig, Len(data)))

\* C2 witness: the patch has run on a buffer with a second match behind the
\* first structure
C2_Witness ==
    /\ pc = "patched"
    /\ \E j \in MatchSet(prePatch) : j >= offset + SizeOfEmbeddedConfig

\* the first offset of buf that carries the tag sequence (NotFound if none)
FirstMatch(buf) ==
    IF MatchSet(buf) = {} THEN NotFound
    ELSE CHOOSE i \in MatchSet(buf) : \A j \in MatchSet(buf) : i <= j

\* the fields of the structure a scan of buf recovers
RecoveredSize(buf) == DecodeI32(buf, FirstMatch(buf) + 12)
RecoveredOffset(buf) == DecodeI32(buf, FirstMatch(buf) + 16)
RecoveredFlag(buf) == buf[FirstMatch(buf) + 21]

\* final_bytes(P, C) of the claims: the content the new section holds, read
\* from the rewritten container's section table
InjectedBytes ==
    LET s == sections[Len(sections)]
    IN  Slice(data, s.off, s.off + s.size)

\* add_embedded_config_data has succeeded on a valid container that held
\* exactly one match
PatchedOneSentinel ==
    /\ pc = "patched"
    /\ ValidContainer
    /\ Cardinality(MatchSet(prebuilt)) = 1

\* C3 (as claimed): after a successful injection into a container with one
\* sentinel, the scanned structure's payload_size is the length of the final
\* (possibly compressed) bytes and its compressed flag is the flag given.
C3_SizeIsFinalLength ==
    PatchedOneSentinel =>
        /\ RecoveredSize(data) = Len(final_data)
        /\ RecoveredSize(data) = Len(InjectedBytes)
        /\ RecoveredFlag(data) = (IF use_xz THEN 1 ELSE 0)

\* C4 (as claimed): reading payload_size bytes at sentinel_offset +
\* payload_offset of the output gives back the final bytes, compressed or not.
C4_RoundTrip ==
    PatchedOneSentinel =>
        LET from == FirstMatch(data) + RecoveredOffset(data)
            to   == from + RecoveredSize(data)
        IN  /\ 0 <= from /\ from <= to /\ to <= Len(data)
            /\ Slice(data, from, to) = final_data
            /\ use_xz => DecompressXz(Slice(data, from, to)) = config_data

\* C5: the payload_offset written is the file offset of the section named
\* .fripack_config in the rewritten container minus the offset of the
\* structure in the rewritten buffer, and the write lands on that offset,
\* whatever the structure's offset was before the injection.
C5_OffsetFromRewrittenBuffer ==
    pc = "patched" =>
        LET secOff == sections[Len(sections)].off
            cur    == FirstMatch(prePatch)
        IN  /\ sections[Len(sections)].name = SECTION_NAME
            /\ Slice(prePatch, secOff, secOff + Len(final_data)) = final_data
            /\ offset = cur
            /\ DecodeI32(written, 16) = secOff - cur
            /\ DecodeI32(data, cur + 16) = secOff - cur

\* C5 witness: the patch has run after a rewrite that moved the structure
C5_Witness ==
    /\ pc = "patched"
    /\ FirstMatch(prebuilt) # NotFound
    /\ FirstMatch(prePatch) # FirstMatch(prebuilt)

\* C6: the patch keeps the length of the buffer and every byte outside the
\* structure_size bytes at the structure's offset; inside, tag_a, tag_b and
\* version still read 0x0d000721, 0x1f8a4e2b and 1.
C6_PatchFrame ==
    pc = "patched" =>
        /\ Len(data) = Len(prePatch)
        /\ offset + SizeOfEmbeddedConfig <= Len(data)
        /\ \A k \in 1..Len(data) :
              (k - 1 < offset \/ k - 1 >= offset + SizeOfEmbeddedConfig)
                 => data[k] = prePatch[k]
        /\ DecodeI32(data, offset) = 218105633
        /\ DecodeI32(data, offset + 4) = 529157675
        /\ DecodeI32(data, offset + 8) = 1

\* C6 witness: the patch has changed bytes of a buffer that has bytes on
\* both sides of the structure
C6_Witness ==
    /\ pc = "patched"
    /\ data # prePatch
    /\ offset > 0
    /\ offset + SizeOfEmbeddedConfig < Len(data)

\* C7: the encoding as_bytes produces is tag_a, tag_b, version, payload_size,
\* payload_offset as 4-byte little-endian integers in this order, then one
\* byte 1/0 for the compressed flag, with nothing in between; the scanner
\* and the patch use the length of this encoding as the structure size.
C7_Layout ==
    pc = "patched" =>
        /\ Len(written) = 4 + 4 + 4 + 4 + 4 + 1
        /\ Slice(written, 0, 8) = TAG_BYTES
        /\ DecodeI32(written, 0) = 218105633
        /\ DecodeI32(written, 4) = 529157675
        /\ DecodeI32(written, 8) = 1
        /\ DecodeI32(written, 12) = Len(config_data)
        /\ DecodeI32(written, 16) = sections[Len(sections)].off - offset
        /\ written[21] = (IF use_xz THEN 1 ELSE 0)
        /\ ScanLimit(prePatch) = Len(prePatch) - Len(written)
        /\ Cardinality({k \in 1..Len(data) : data[k] # prePatch[k]}) <= Len(written)

\* C7 witness: a structure with non-zero size and offset and the flag set has
\* been encoded
C7_Witness ==
    /\ pc = "patched"
    /\ use_xz
    /\ Len(config_data) > 0
    /\ DecodeI32(written, 16) > 0

\* C8 (as claimed): new() rejects every buffer shorter than the structure
\* size or without the ELF magic in front, and nothing is produced for it.
C8_ShortOrBadMagicRejected ==
    (/\ pc # "start"
     /\ (Len(prebuilt) < SizeOfEmbeddedConfig \/ Slice(prebuilt, 0, 4) # ELF_MAGIC))
    => /\ pc = "error"
       /\ ~hasProcessor
       /\ data = <<>>
       /\ trace = <<>>
       /\ ~outWritten

\* C9 (as claimed): on a valid container without any tag match,
\* add_embedded_config_data fails as "structure not found", the processor's
\* buffer after that failure is the input buffer, and no file is written.
C9_NoSentinelNoModifiedOutput ==
    (ValidContainer /\ MatchSet(prebuilt) = {}) =>
        /\ pc \notin {"located", "patched", "done"}
        /\ ~outWritten
        /\ (pc = "panicked" /\ steps[Len(steps)] = "scan") => data = prebuilt

\* the engine states in their order
ENGINE_ORDER == <<"Validated", "Injected", "Located", "Patched">>

\* C10: the states entered in one invocation are a prefix of Validated,
\* Injected, Located, Patched (none twice, none out of order), and the
\* validation is the first step taken and is taken once.
C10_OneWayOrder ==
    /\ Len(trace) <= Len(ENGINE_ORDER)
    /\ \A k \in 1..Len(trace) : trace[k] = ENGINE_ORDER[k]
    /\ steps # <<>> => steps[1] = "validate"
    /\ \A k \in 2..Len(steps) : steps[k] # "validate"
    /\ pc = "start" <=> steps = <<>>
    /\ pc \in {"validated", "encoded"} => Len(trace) = 1
    /\ pc = "injected" => Len(trace) = 2
    /\ pc = "located" => Len(trace) = 3
    /\ pc \in {"patched", "done"} => Len(trace) = 4

\* C10 witness: an invocation that went through all four states
C10_Witness ==
    /\ pc = "done"
    /\ trace = ENGINE_ORDER
    /\ steps[Len(steps)] = "patch"

\* --------------------------------------------- failures and the container
\* the operation has ended in a failure: an Err returned, or a panic
Failed == pc \in {"error", "panicked"}

\* C11 (as claimed): every failure of the patch operation reaches the caller
\* of build_android_so as a returned Err, and no output file is written.
C11_FailureReturnsErr ==
    Failed => /\ pc = "error"
              /\ ~outWritten
              /\ outFile = <<>>

\* the compression pass has failed
CompressionFailed ==
    /\ pc = "panicked"
    /\ steps[Len(steps)] = "compress"

\* the section injector has just returned Ok
JustInjected == pc = "injected"

\* C12: a failed compression pass ends the operation with no section added
\* and the buffer as it was; the bytes injected under the flag are never the
\* uncompressed payload, and without the flag they are the payload unchanged.
C12_NoUncompressedFallback ==
    /\ CompressionFailed =>
          /\ data = prebuilt
          /\ \A k \in 1..Len(sections) : sections[k].name # SECTION_NAME
          /\ trace = <<"Validated">>
          /\ ~outWritten
    /\ JustInjected /\ use_xz =>
          /\ InjectedBytes # config_data
          /\ DecompressXz(InjectedBytes) = config_data
    /\ JustInjected /\ ~use_xz => InjectedBytes = config_data

\* C12 witness: the compression pass failed on a readable container
C12_Witness ==
    /\ CompressionFailed
    /\ ValidContainer
    /\ use_xz

\* C13: when the section injector returns Ok the container has one section
\* more than the input; it is the last of the table, the only one named
\* .fripack_config, it is allocated, and its content is the final bytes.
C13_OneSectionAdded ==
    JustInjected =>
       LET last == sections[Len(sections)]
       IN  /\ Len(sections) = Len(InputSections(prebuilt)) + 1
           /\ last.name = SECTION_NAME
           /\ \A k \in 1..(Len(sections) - 1) : sections[k].name # SECTION_NAME
           /\ "ALLOC" \in last.flags
           /\ last.size = Len(InjectedBytes)
           /\ last.off + last.size <= Len(data)
           /\ InjectedBytes = (IF use_xz THEN CompressXz(config_data)
                                         ELSE config_data)

\* C13 witness: a section with content has been added
C13_Witness ==
    /\ JustInjected
    /\ Len(InjectedBytes) > 1
    /\ sections[Len(sections)].off > Len(prebuilt)

MaxScanExtra == 3

\* the highest slice end the comparison of line 79 asks for at index i:
\* data[i..i + 4] always, data[i + 4..i + 8] when the first half compared equal
SliceEndAt(buf, i) ==
    IF i + 4 <= Len(buf) /\ Slice(buf, i, i + 4) = ToLeBytes(MAGIC1)
    THEN i + 8 ELSE i + 4

\* the indices at which the loop of lines 78-82 stops: a slice past the end
\* (a panic) or a match (return Some(i))
ScanEvents(buf) ==
    {i \in 0..(ScanLimit(buf) - 1) :
        SliceEndAt(buf, i) > Len(buf) \/ TagsAt(buf, i)}

ScanFirstEvent(buf) ==
    CHOOSE i \in ScanEvents(buf) : \A j \in ScanEvents(buf) : i <= j

\* the indices the loop gets to
ScanVisited(buf) ==
    IF ScanEvents(buf) = {} THEN 0..(ScanLimit(buf) - 1)
    ELSE 0..ScanFirstEvent(buf)

\* one more than the highest buffer index the scan reads (0: none read)
ScanReadEnd(buf) ==
    LET ends == {SliceEndAt(buf, i) : i \in ScanVisited(buf)} \cup {0}
    IN  CHOOSE e \in ends : \A f \in ends : e >= f

\* find_embedded_config with Rust's bounds checks: panic, None or Some(i)
ScanOutcome(buf) ==
    IF ScanEvents(buf) = {} THEN [panic |-> FALSE, res |-> NotFound]
    ELSE LET i == ScanFirstEvent(buf)
         IN  IF SliceEndAt(buf, i) > Len(buf)
             THEN [panic |-> TRUE, res |-> NotFound]
             ELSE [panic |-> FALSE, res |-> i]

\* buffers of every length from 0 on, empty of tags or with the structure (cut
\* at the end of the buffer) or only its first tag somewhere
ScanLens == 0..(SizeOfEmbeddedConfig + MaxScanExtra)
ScanBuffers ==
    {Zeros(L) : L \in ScanLens}
      \cup {Overlay(Zeros(L), p, AsBytes(EmbeddedConfigDefault)) :
              <<L, p>> \in {<<L, p>> \in ScanLens \X ScanLens : p < L}}
      \cup {Overlay(Zeros(L), p, ToLeBytes(MAGIC1)) :
              <<L, p>> \in {<<L, p>> \in ScanLens \X ScanLens : p < L}}

InitScan ==
    /\ EngineIdle
    /\ batch = Idle
    /\ resolve = Idle
    /\ matchRun = Idle
    /\ download = Idle
    /\ \E b \in ScanBuffers :
         scanRun = [pc |-> "ready", input |-> b, buf |-> b, res |-> NotFound,
                    readEnd |-> 0]

\* binary.rs:70-85  find_embedded_config on the buffer
ScanBuffer ==
    /\ scanRun.pc = "ready"
    /\ LET o == ScanOutcome(scanRun.buf)
       IN  scanRun' = [scanRun EXCEPT
                         !.pc = IF o.panic THEN "panicked" ELSE "scanned",
                         !.res = o.res,
                         !.readEnd = ScanReadEnd(scanRun.buf)]
    /\ UNCHANGED <<engineVars, batch, resolve, matchRun, download>>

\* binary.rs:126-128  the structure is copied over the bytes at the offset
\* found; a slice past the end panics
PatchBuffer ==
    /\ scanRun.pc = "scanned"
    /\ scanRun.res # NotFound
    /\ LET bytes == AsBytes(EmbeddedConfigNew(1, 2, TRUE))
       IN  IF scanRun.res + Len(bytes) > Len(scanRun.buf)
           THEN scanRun' = [scanRun EXCEPT !.pc = "panicked"]
           ELSE scanRun' = [scanRun EXCEPT
                              !.pc = "patched",
                              !.buf = CopyFromSlice(@, scanRun.res, bytes)]
    /\ UNCHANGED <<engineVars, batch, resolve, matchRun, download>>

NextScan ==
    \/ ScanBuffer
    \/ PatchBuffer

SpecScan == InitScan /\ [][NextScan]_vars

\* C20: on a buffer of any length the scan asks for no index past the end,
\* every offset it returns leaves room for the whole structure, and the
\* patch neither panics nor changes the buffer's length.
C20_NoAccessPastEnd ==
    /\ scanRun.pc # "panicked"
    /\ scanRun.pc \in {"scanned", "patched"} =>
          /\ scanRun.readEnd <= Len(scanRun.input)
          /\ scanRun.res # NotFound =>
                /\ scanRun.res >= 0
                /\ scanRun.res + SizeOfEmbeddedConfig <= Len(scanRun.input)
          /\ Len(scanRun.input) <= SizeOfEmbeddedConfig =>
                scanRun.res = NotFound /\ scanRun.readEnd = 0
    /\ scanRun.pc = "patched" => Len(scanRun.buf) = Len(scanRun.input)

\* C20 witness: the structure found at the last offset the scan looks at,
\* and patched there
C20_Witness ==
    /\ scanRun.pc = "patched"
    /\ scanRun.res = Len(scanRun.input) - SizeOfEmbeddedConfig - 1
    /\ scanRun.readEnd > scanRun.res

\* ------------------------------------------------ the build loop (a batch)
MaxBatch == 3

BatchNames == {"target" \o ToString(k) : k \in 1..MaxBatch}

\* what decides how the build of one target ends: its type, and the first
\* step of build_android_so that fails ("none": no step fails)
TargetKinds ==
    {[type |-> "android-so", fault |-> f] :
        f \in {"none", "validate", "patch", "write"}}
      \cup {[type |-> "xposed", fault |-> "none"],
            [type |-> "missing", fault |-> "none"]}

\* Builder::build_target on one target.  result "ok": Ok(()) with the output
\* file written; "err": an Err returned (error: its message); "panic": the
\* thread panicked (builder.rs:76 unwrap(), builder.rs:110 unimplemented!())
BuildTarget(t) ==
    IF t.type = "missing"
    THEN [result |-> "err", error |-> "Missing required field: type",
          wrote |-> FALSE]
    ELSE IF t.type = "xposed"
    THEN [result |-> "panic", error |-> "not implemented", wrote |-> FALSE]
    ELSE IF t.fault = "validate"
    THEN [result |-> "err", error |-> "Invalid ELF file", wrote |-> FALSE]
    ELSE IF t.fault = "patch"
    THEN [result |-> "panic", error |-> "unwrap on Err",
          wrote |-> FALSE]
    ELSE IF t.fault = "write"
    THEN [result |-> "err", error |-> "write failed", wrote |-> FALSE]
    ELSE [result |-> "ok", error |-> "", wrote |-> TRUE]

InitBatch ==
    /\ EngineIdle
    /\ scanRun = Idle
    /\ resolve = Idle
    /\ matchRun = Idle
    /\ download = Idle
    /\ \E ts \in [BatchNames -> TargetKinds] :
         batch = [pc |-> "loop", targets |-> ts, todo |-> BatchNames,
                  attempted |-> <<>>, written |-> {}, returned |-> "",
                  completed |-> FALSE]

\* main.rs:141-153 (builder.rs:120-122)  one turn of the loop over the
\* targets, in the iteration order of the map; the ? returns the first Err
BuildNext ==
    /\ batch.pc = "loop"
    /\ \E n \in batch.todo :
         LET b == BuildTarget(batch.targets[n])
         IN  batch' = [batch EXCEPT
                !.todo = @ \ {n},
                !.attempted = Append(@, [name |-> n, result |-> b.result]),
                !.written = IF b.wrote THEN @ \cup {n} ELSE @,
                !.returned = IF b.result = "err" THEN b.error ELSE @,
                !.pc = IF b.result = "ok" THEN "loop"
                       ELSE IF b.result = "err" THEN "returned_err"
                       ELSE "panicked"]
    /\ UNCHANGED <<engineVars, scanRun, resolve, matchRun, download>>

\* main.rs:157-158 (builder.rs:124-125)  the loop is over: the success line
\* is printed and Ok(()) returned
BatchDone ==
    /\ batch.pc = "loop"
    /\ batch.todo = {}
    /\ batch' = [batch EXCEPT !.pc = "returned_ok", !.completed = TRUE]
    /\ UNCHANGED <<engineVars, scanRun, resolve, matchRun, download>>

NextBatch ==
    \/ BuildNext
    \/ BatchDone

SpecBatch == InitBatch /\ [][NextBatch]_vars

\* the targets attempted whose build did not end in Ok
FailedAttempts ==
    {k \in 1..Len(batch.attempted) : batch.attempted[k].result # "ok"}

\* C15 (as claimed): the first failing target ends the batch: nothing is
\* built or written after it, the run returns that target's failure, and
\* the success outcome is reached only when every target was built.
C15_FirstFailureAborts ==
    /\ \A k \in FailedAttempts : k = Len(batch.attempted)
    /\ batch.written = {batch.attempted[k].name :
                           k \in (1..Len(batch.attempted)) \ FailedAttempts}
    /\ FailedAttempts # {} =>
          /\ batch.pc = "returned_err"
          /\ batch.returned # ""
          /\ ~batch.completed
    /\ batch.completed =>
          /\ batch.todo = {}
          /\ \A n \in BatchNames : BuildTarget(batch.targets[n]).result = "ok"

\* -------------------------------------- FripackConfig::resolve_inheritance
MaxNames == 3

\* the names of the configuration's targets, and a name that is none of them
ConfigNames == {"t" \o ToString(k) : k \in 1..MaxNames}
GHOST == "ghost"
NONE == "none"

\* TargetConfig, cut down to inherit, one Option<String> field and the
\* Option<bool> field: what a target may set of the two fields
FieldProfiles ==
    {[sets |-> FALSE, xz |-> NONE], [sets |-> TRUE, xz |-> "yes"],
     [sets |-> FALSE, xz |-> "no"]}

\* the inherit chain of target n as a sequence: n, its parent, the parent of
\* that one, ... (a name outside the configuration, or NONE, ends the chain
\* and is repeated)
RECURSIVE ChainFrom(_, _, _)
ChainFrom(ts, x, k) ==
    IF k = 0 THEN <<>>
    ELSE LET up == IF x \in DOMAIN ts THEN ts[x].inherit ELSE x
         IN  <<up>> \o ChainFrom(ts, up, k - 1)
InheritChain(ts, n) == <<n>> \o ChainFrom(ts, n, MaxNames)

\* the chain of n comes back to n
ReachesItself(ts, n) ==
    LET c == InheritChain(ts, n) IN \E k \in 2..Len(c) : c[k] = n

\* the chain of n names a target that is not in the configuration
NamesMissing(ts, n) ==
    LET c == InheritChain(ts, n) IN \E k \in 2..Len(c) : c[k] = GHOST

\* the configuration has a target whose chain is cyclic or names a
\* missing target
BadChains(ts) ==
    \E n \in DOMAIN ts : ReachesItself(ts, n) \/ NamesMissing(ts, n)

\* the configurations: every target inherits from a target, from nobody or
\* from a name that is not there, and sets its fields by one of the profiles.
\* The fields take no part in the control flow of resolve_target, so the
\* configurations whose chains are cyclic or broken come with silent targets
\* only.
InheritMaps == [ConfigNames -> ConfigNames \cup {NONE, GHOST}]
SilentProfile == [sets |-> FALSE, xz |-> NONE]
MakeConfig(inh, prof) ==
    [n \in ConfigNames |->
        [inherit |-> inh[n],
         platform |-> IF prof[n].sets THEN "platform-of-" \o n ELSE NONE,
         xz |-> prof[n].xz]]
Configurations ==
    {MakeConfig(inh, [n \in ConfigNames |-> SilentProfile]) : inh \in InheritMaps}
      \cup {MakeConfig(inh, prof) :
              inh \in {i \in InheritMaps :
                         ~BadChains(MakeConfig(i, [n \in ConfigNames |-> SilentProfile]))},
              prof \in [ConfigNames -> FieldProfiles]}

\* ResolvedTarget::default(): every Option None, xz false
ResolvedDefault == [platform |-> NONE, xz |-> FALSE]

\* faulty variant: a value the parent has set is kept
OverrideParentWins(base, t) ==
    [platform |-> IF base.platform # NONE THEN base.platform ELSE t.platform,
     xz |-> IF base.xz THEN TRUE ELSE t.xz = "yes"]

\* config.rs:159-195  every field the target sets replaces the inherited one
Override(base, t) ==
    [platform |-> IF t.platform # NONE THEN t.platform ELSE base.platform,
     xz |-> IF t.xz = "yes" THEN TRUE
            ELSE IF t.xz = "no" THEN FALSE ELSE base.xz]

\* config.rs:197-198  processing.remove(name); resolved_targets.insert(..)
FinishTarget(ts, name, st, base) ==
    [st EXCEPT
       !.processing = @ \ {name},
       !.resolved = [n \in (DOMAIN @) \cup {name} |->
                        IF n = name THEN Override(base, ts[name]) ELSE @[n]]]

\* faulty variant: a parent that is not in the configuration is passed over
OnMissingParentSkip(ts, name, st) == FinishTarget(ts, name, st, ResolvedDefault)

\* config.rs:154-156  bail!("Target not found: ..")
OnMissingParent(ts, name, st) == [st EXCEPT !.error = "Target not found"]

\* config.rs:128-201  resolve_target; st holds resolved_targets, processing,
\* the error it bailed with ("" for Ok) and the number of calls made
RECURSIVE ResolveTarget(_, _, _)
ResolveTarget(ts, name, st) ==
    LET st0 == [st EXCEPT !.calls = @ + 1]
    IN  IF name \in DOMAIN st0.resolved THEN st0
        ELSE IF name \in st0.processing
        THEN [st0 EXCEPT !.error = "Cyclic inheritance detected"]
        ELSE LET st1 == [st0 EXCEPT !.processing = @ \cup {name}]
                 inherit == ts[name].inherit
             IN  IF inherit = NONE
                 THEN FinishTarget(ts, name, st1, ResolvedDefault)
                 ELSE IF inherit \in DOMAIN ts
                 THEN LET st2 == ResolveTarget(ts, inherit, st1)
                      IN  IF st2.error # "" THEN st2
                          ELSE FinishTarget(ts, name, st2,
                                 IF inherit \in DOMAIN st2.resolved
                                 THEN st2.resolved[inherit]
                                 ELSE ResolvedDefault)
                 ELSE OnMissingParent(ts, name, st1)

InitResolve ==
    /\ EngineIdle
    /\ scanRun = Idle
    /\ batch = Idle
    /\ matchRun = Idle
    /\ download = Idle
    /\ \E ts \in Configurations :
         resolve = [pc |-> "loop", targets |-> ts, todo |-> ConfigNames,
                    resolved |-> <<>>, processing |-> {}, error |-> "",
                    calls |-> 0]

\* config.rs:119-121  one turn of the loop over self.targets, in the
\* iteration order of the map
ResolveNext ==
    /\ resolve.pc = "loop"
    /\ \E n \in resolve.todo :
         LET st == ResolveTarget(resolve.targets, n,
                     [resolved |-> resolve.resolved,
                      processing |-> resolve.processing,
                      error |-> "", calls |-> 0])
         IN  resolve' = [resolve EXCEPT
                !.todo = @ \ {n},
                !.resolved = st.resolved,
                !.processing = st.processing,
                !.error = st.error,
                !.calls = st.calls,
                !.pc = IF st.error # "" THEN "err" ELSE "loop"]
    /\ UNCHANGED <<engineVars, scanRun, batch, matchRun, download>>

\* config.rs:123-125  Ok(ResolvedConfig { targets: resolved_targets })
ResolveDone ==
    /\ resolve.pc = "loop"
    /\ resolve.todo = {}
    /\ resolve' = [resolve EXCEPT !.pc = "ok"]
    /\ UNCHANGED <<engineVars, scanRun, batch, matchRun, download>>

NextResolve ==
    \/ ResolveNext
    \/ ResolveDone

SpecResolve == InitResolve /\ [][NextResolve]_vars

Nearest(ks) == CHOOSE k \in ks : \A j \in ks : k <= j

\* the resolved target the claim describes: own value, else the value of the
\* nearest ancestor that sets the field, else the default
ExpectedResolved(ts, n) ==
    LET c == InheritChain(ts, n)
        platformSetters ==
          {k \in 1..Len(c) : c[k] \in DOMAIN ts /\ ts[c[k]].platform # NONE}
        xzSetters ==
          {k \in 1..Len(c) : c[k] \in DOMAIN ts /\ ts[c[k]].xz # NONE}
    IN  [platform |-> IF platformSetters = {} THEN NONE
                      ELSE ts[c[Nearest(platformSetters)]].platform,
         xz |-> IF xzSetters = {} THEN FALSE
                ELSE ts[c[Nearest(xzSetters)]].xz = "yes"]

\* C16: whenever resolve_inheritance has not failed, every target resolved
\* so far has, field by field, its own value, else its nearest setting
\* ancestor's, else the default, whatever the order of the visits; and a
\* successful result holds exactly the names of the input.
C16_NearestAncestorWins ==
    /\ resolve.pc \in {"loop", "ok"} =>
          \A n \in DOMAIN resolve.resolved :
             resolve.resolved[n] = ExpectedResolved(resolve.targets, n)
    /\ resolve.pc = "ok" => DOMAIN resolve.resolved = DOMAIN resolve.targets

\* C16 witness: a chain of three targets resolved, the platform of the
\* grandparent reaching the child past a silent parent and
\* the child's own xz = false replacing an inherited true
C16_Witness ==
    /\ resolve.pc = "ok"
    /\ \E c \in ConfigNames :
         LET ts == resolve.targets
             p == ts[c].inherit
         IN  /\ p \in ConfigNames \ {c}
             /\ ts[p].inherit \in ConfigNames \ {c, p}
             /\ ts[p].platform = NONE
             /\ ts[ts[p].inherit].platform # NONE
             /\ resolve.resolved[c].platform = ts[ts[p].inherit].platform
             /\ resolve.resolved[p].xz
             /\ ~resolve.resolved[c].xz

\* C17: resolve_inheritance ends (a turn of the loop makes at most one call
\* of resolve_target per target and one more, and leaves nothing in
\* processing), it fails exactly on the configurations with a cyclic chain
\* or a missing parent, and it reports a cycle only where there is one.
C17_ErrorIffBadChain ==
    /\ resolve.pc = "err" => BadChains(resolve.targets)
    /\ resolve.pc = "ok" => ~BadChains(resolve.targets)
    /\ resolve.error = "Cyclic inheritance detected" =>
          \E n \in ConfigNames : ReachesItself(resolve.targets, n)
    /\ resolve.error = "Target not found" =>
          \E n \in ConfigNames : NamesMissing(resolve.targets, n)
    /\ resolve.calls <= MaxNames + 1
    /\ resolve.pc = "loop" =>
          /\ resolve.error = ""
          /\ resolve.processing = {}
    /\ resolve.pc = "ok" => resolve.todo = {}

\* C17 witness: a parent shared by two children, resolved without an error
C17_Witness ==
    /\ resolve.pc = "ok"
    /\ \E a, b \in ConfigNames :
         /\ a # b
         /\ resolve.targets[a].inherit = resolve.targets[b].inherit
         /\ resolve.targets[a].inherit \in ConfigNames \ {a, b}

\* ---------------------------------------- Downloader::find_matching_file
MaxAssets == 3

\* Strings are sequences of pieces (a piece is never split by a search).
\* str::to_lowercase, piece by piece
LowerPiece(p) ==
    CASE p = "FRIDA" -> "frida"
      [] p = "ANDROID" -> "android"
      [] p = "ARM" -> "arm"
      [] p = "SO" -> "so"
      [] p = "RC" -> "rc"
      [] p = "RISCV" -> "riscv"
      [] OTHER -> p
ToLowercase(str) == [k \in 1..Len(str) |-> LowerPiece(str[k])]

\* str::contains and str::ends_with
Contains(hay, needle) ==
    \E i \in 0..(Len(hay) - Len(needle)) :
       SubSeq(hay, i + 1, i + Len(needle)) = needle
EndsWith(str, suffix) ==
    /\ Len(str) >= Len(suffix)
    /\ SubSeq(str, Len(str) - Len(suffix) + 1, Len(str)) = suffix

DOT_SO == <<".", "so">>

\* downloader.rs:333-345  platform_mappings, and the platform itself as the
\* only keyword of a platform that is not in the table
PlatformKeywords(platform) ==
    IF platform = <<"arm", "64", "-", "v8a">>
    THEN << <<"android", "-", "arm", "64">>, <<"arm", "64">> >>
    ELSE IF platform = <<"arm", "eabi", "-", "v7a">>
    THEN << <<"android", "-", "arm">>, <<"arm">> >>
    ELSE << platform >>

\* the inner loop over the keywords: the lower-cased name holds one of them
HasKeyword(filename, keywords) ==
    \E j \in 1..Len(keywords) : Contains(filename, ToLowercase(keywords[j]))

\* the first of the indices at which a loop over the files returns (0 when
\* it returns at none)
FirstIndex(hits) ==
    IF hits = {} THEN 0 ELSE CHOOSE k \in hits : \A j \in hits : k <= j

\* faulty variant: one pass that returns the first file passing any test
FindMatchingFileOnePass(files, platform, version) ==
    LET keywords == PlatformKeywords(platform)
    IN  FirstIndex({k \in 1..Len(files) :
                      \/ HasKeyword(ToLowercase(files[k]), keywords)
                      \/ EndsWith(files[k], DOT_SO)})

\* downloader.rs:327-398  find_matching_file: the index of the file returned
\* (0: bail "No matching file found")
FindMatchingFile(files, platform, version) ==
    LET keywords == PlatformKeywords(platform)
        both == {k \in 1..Len(files) :
                   /\ Contains(ToLowercase(files[k]), ToLowercase(version))
                   /\ HasKeyword(ToLowercase(files[k]), keywords)}
        keyword == {k \in 1..Len(files) :
                      HasKeyword(ToLowercase(files[k]), keywords)}
        suffix == {k \in 1..Len(files) : EndsWith(files[k], DOT_SO)}
    IN  IF both # {} THEN FirstIndex(both)
        ELSE IF keyword # {} THEN FirstIndex(keyword)
        ELSE FirstIndex(suffix)

\* the asset names, platforms and versions the calls are made with
AssetNames ==
    { <<"frida", "-", "17", "-", "android", "-", "arm", "64", ".", "so">>,
      <<"frida", "-", "16", "-", "android", "-", "arm", "64", ".", "so">>,
      <<"FRIDA", "-", "17", "-", "ANDROID", "-", "ARM", "64", ".", "SO">>,
      <<"frida", "-", "17", "-", "android", "-", "arm", ".", "so">>,
      <<"frida", "-", "17", "-", "rc", "-", "riscv", ".", "so", ".", "xz">>,
      <<"frida", "-", "17", "-", "linux", ".", "so">>,
      <<"readme", ".", "txt">> }
AssetLists == UNION {[1..n -> AssetNames] : n \in 0..MaxAssets}
Platforms ==
    { <<"arm", "64", "-", "v8a">>, <<"arm", "eabi", "-", "v7a">>, <<"RISCV">> }
Versions == { <<"17">>, <<"17", "-", "RC">> }

InitMatch ==
    /\ EngineIdle
    /\ scanRun = Idle
    /\ batch = Idle
    /\ resolve = Idle
    /\ download = Idle
    /\ \E fs \in AssetLists, p \in Platforms, v \in Versions :
         matchRun = [pc |-> "ready", files |-> fs, platform |-> p,
                     version |-> v, found |-> 0]

\* one call of find_matching_file
FindMatching ==
    /\ matchRun.pc = "ready"
    /\ LET i == FindMatchingFile(matchRun.files, matchRun.platform,
                                 matchRun.version)
       IN  matchRun' = [matchRun EXCEPT
                          !.pc = IF i = 0 THEN "err" ELSE "ok",
                          !.found = i]
    /\ UNCHANGED <<engineVars, scanRun, batch, resolve, download>>

NextMatch == FindMatching

SpecMatch == InitMatch /\ [][NextMatch]_vars

\* the priority class of an asset for the call: 1 version and keyword,
\* 2 keyword, 3 the .so suffix, 4 none of them
AssetClass(name, platform, version) ==
    LET lower == ToLowercase(name)
        kw == \E j \in 1..Len(PlatformKeywords(platform)) :
                 Contains(lower, ToLowercase(PlatformKeywords(platform)[j]))
    IN  IF kw /\ Contains(lower, ToLowercase(version)) THEN 1
        ELSE IF kw THEN 2
        ELSE IF EndsWith(name, DOT_SO) THEN 3
        ELSE 4

\* C19: the call fails exactly when no asset is of class 1, 2 or 3; the
\* asset it returns is of the best class the list holds and is the first of
\* that class in list order.
C19_StrictPriority ==
    matchRun.pc \in {"ok", "err"} =>
       LET fs == matchRun.files
           cls(k) == AssetClass(fs[k], matchRun.platform, matchRun.version)
       IN  /\ matchRun.pc = "err" <=> \A k \in 1..Len(fs) : cls(k) = 4
           /\ matchRun.pc = "ok" =>
                 /\ matchRun.found \in 1..Len(fs)
                 /\ cls(matchRun.found) < 4
                 /\ \A k \in 1..Len(fs) : cls(k) >= cls(matchRun.found)
                 /\ \A k \in 1..(matchRun.found - 1) : cls(k) > cls(matchRun.found)

\* C19 witness: the asset returned stands behind assets of two lower classes
C19_Witness ==
    /\ matchRun.pc = "ok"
    /\ matchRun.found = 3
    /\ AssetClass(matchRun.files[3], matchRun.platform, matchRun.version) = 1
    /\ AssetClass(matchRun.files[1], matchRun.platform, matchRun.version) = 3
    /\ AssetClass(matchRun.files[2], matchRun.platform, matchRun.version) = 2

\* ------------------------------------- Downloader::download_prebuilt_file
MaxCalls == 2
MaxChunks == 2

\* downloader.rs:42-45  get_cache_file_path: the file name is formatted from
\* the platform and the version (strings are sequences of pieces)
CacheFilePath(platform, version) ==
    <<"fripack-inject", "-">> \o platform \o <<"-">> \o version \o <<".so">>

\* downloader.rs:47-50  is_file_cached: the path exists
IsFileCached(cache, platform, version) ==
    CacheFilePath(platform, version) \in DOMAIN cache

\* fs::write(path, bytes): the file at path holds bytes afterwards
WriteFile(cache, path, bytes) ==
    [q \in (DOMAIN cache) \cup {path} |-> IF q = path THEN bytes ELSE cache[q]]

\* the (platform, version) pairs asked for, the asset lists a release may
\* hold and the bodies a server may send, chunk by chunk
DownloadPlatforms == { <<"arm">>, <<"arm", "-", "v7">> }
DownloadVersions == { <<"17">>, <<"v7", "-", "17">> }
ReleaseAssets ==
    { <<>>,
      << <<"readme", ".", "txt">> >>,
      << <<"readme", ".", "txt">>, <<"frida", "-", "17", "-", "arm", ".", "so">> >> }
ChunkValues == { <<1>>, <<2>> }
Bodies == UNION {[1..n -> ChunkValues] : n \in 0..MaxChunks}

InitDownload ==
    /\ EngineIdle
    /\ scanRun = Idle
    /\ batch = Idle
    /\ resolve = Idle
    /\ matchRun = Idle
    /\ download = [pc |-> "ready", cache |-> <<>>, calls |-> 0,
                   platform |-> <<>>, version |-> <<>>, atStart |-> <<>>,
                   hit |-> FALSE, requests |-> 0, files |-> <<>>,
                   body |-> <<>>, received |-> 0, data |-> <<>>,
                   returned |-> <<>>, failedAt |-> ""]

\* the fields a call starts from
StartCall(p, v, isHit) ==
    [download EXCEPT
       !.calls = @ + 1, !.platform = p, !.version = v, !.atStart = download.cache,
       !.hit = isHit, !.requests = 0, !.files = <<>>, !.body = <<>>,
       !.received = 0, !.data = <<>>, !.returned = <<>>, !.failedAt = ""]

\* the call returns Err out of the named step
FailAt(step) == [download EXCEPT !.pc = "returned_err", !.failedAt = step]

\* downloader.rs:158-160, 52-60  the path exists: load_cached_file, whose
\* fs::read returns the bytes of the file or an error
DownloadCallHit ==
    /\ download.pc = "ready"
    /\ download.calls < MaxCalls
    /\ \E p \in DownloadPlatforms, v \in DownloadVersions :
         /\ IsFileCached(download.cache, p, v)
         /\ \/ download' = [StartCall(p, v, TRUE) EXCEPT
                              !.pc = "returned_ok",
                              !.returned = download.cache[CacheFilePath(p, v)]]
            \/ download' = [StartCall(p, v, TRUE) EXCEPT
                              !.pc = "returned_err", !.failedAt = "read"]
    /\ UNCHANGED <<engineVars, scanRun, batch, resolve, matchRun>>

\* downloader.rs:158  the path does not exist: the call goes on
DownloadCallMiss ==
    /\ download.pc = "ready"
    /\ download.calls < MaxCalls
    /\ \E p \in DownloadPlatforms, v \in DownloadVersions :
         /\ ~IsFileCached(download.cache, p, v)
         /\ download' = [StartCall(p, v, FALSE) EXCEPT !.pc = "lookup"]
    /\ UNCHANGED <<engineVars, scanRun, batch, resolve, matchRun>>

\* downloader.rs:162, 285-325  get_release_files(..)?: one request; an error
\* or a status that is no success returns Err
GetReleaseFiles ==
    /\ download.pc = "lookup"
    /\ \/ download' = [FailAt("release") EXCEPT !.requests = @ + 1]
       \/ \E fs \in ReleaseAssets :
            download' = [download EXCEPT
                           !.pc = "matching", !.requests = @ + 1, !.files = fs]
    /\ UNCHANGED <<engineVars, scanRun, batch, resolve, matchRun>>

\* downloader.rs:164  find_matching_file(..)?
FindAsset ==
    /\ download.pc = "matching"
    /\ IF FindMatchingFile(download.files, download.platform, download.version) = 0
       THEN download' = FailAt("match")
       ELSE download' = [download EXCEPT !.pc = "sending"]
    /\ UNCHANGED <<engineVars, scanRun, batch, resolve, matchRun>>

\* downloader.rs:175-183  client.get(url).send()?, then the status test
SendRequest ==
    /\ download.pc = "sending"
    /\ \/ download' = [FailAt("send") EXCEPT !.requests = @ + 1]
       \/ download' = [FailAt("status") EXCEPT !.requests = @ + 1]
       \/ \E b \in Bodies :
            download' = [download EXCEPT
                           !.pc = "streaming", !.requests = @ + 1, !.body = b]
    /\ UNCHANGED <<engineVars, scanRun, batch, resolve, matchRun>>

\* faulty variant: every chunk received is written through to the cache file
ReceiveChunkToCache ==
    /\ download.pc = "streaming"
    /\ download.received < Len(download.body)
    /\ \/ download' = FailAt("chunk")
       \/ LET d == download.data \o download.body[download.received + 1]
          IN  download' = [download EXCEPT
                 !.received = @ + 1,
                 !.data = d,
                 !.cache = WriteFile(@, CacheFilePath(download.platform,
                                                      download.version), d)]
    /\ UNCHANGED <<engineVars, scanRun, batch, resolve, matchRun>>

\* downloader.rs:199-204  one turn of the loop over the stream: chunk? then
\* data.extend_from_slice(&chunk)
ReceiveChunk ==
    /\ download.pc = "streaming"
    /\ download.received < Len(download.body)
    /\ \/ download' = FailAt("chunk")
       \/ download' = [download EXCEPT
                         !.received = @ + 1,
                         !.data = @ \o download.body[download.received + 1]]
    /\ UNCHANGED <<engineVars, scanRun, batch, resolve, matchRun>>

\* downloader.rs:208-210, 62-72  the stream has ended: save_to_cache(..)?
\* then Ok(data).  ensure_cache_dir may fail (nothing written); fs::write
\* may fail after it has created the file (a shorter file is left)
SaveToCache ==
    /\ download.pc = "streaming"
    /\ download.received = Len(download.body)
    /\ LET path == CacheFilePath(download.platform, download.version)
       IN  \/ download' = [download EXCEPT
                             !.pc = "returned_ok",
                             !.cache = WriteFile(@, path, download.data),
                             !.returned = download.data]
           \/ download' = FailAt("save")
           \/ \E n \in 0..(Len(download.data) - 1) :
                download' = [FailAt("save") EXCEPT
                               !.cache = WriteFile(@, path,
                                                   SubSeq(download.data, 1, n))]
    /\ UNCHANGED <<engineVars, scanRun, batch, resolve, matchRun>>

\* the caller has the result; the downloader is ready for the next call
DownloadReturn ==
    /\ download.pc \in {"returned_ok", "returned_err"}
    /\ download' = [download EXCEPT !.pc = "ready"]
    /\ UNCHANGED <<engineVars, scanRun, batch, resolve, matchRun>>

NextDownload ==
    \/ DownloadCallHit
    \/ DownloadCallMiss
    \/ GetReleaseFiles
    \/ FindAsset
    \/ SendRequest
    \/ ReceiveChunk
    \/ SaveToCache
    \/ DownloadReturn

SpecDownload == InitDownload /\ [][NextDownload]_vars

\* the cache file of the pair the current call asks for
CallPath == CacheFilePath(download.platform, download.version)

\* the bytes of a whole body
RECURSIVE Flatten(_)
Flatten(chunks) ==
    IF chunks = <<>> THEN <<>> ELSE Head(chunks) \o Flatten(Tail(chunks))

\* the call has returned
Returned == download.pc \in {"returned_ok", "returned_err"}

\* C18: a call that finds the pair's file in the cache makes no network
\* request, leaves the cache alone and returns nothing but the cached bytes;
\* a call that does not find it leaves the cache as it was until the whole
\* body has been received, stores exactly the bytes it returns, and leaves
\* the cache without an entry for the pair when the release lookup, the
\* asset match, the request, its status or a chunk fails.
C18_CacheOnlyWholeBodies ==
    /\ download.hit /\ Returned =>
          /\ download.requests = 0
          /\ download.cache = download.atStart
          /\ download.pc = "returned_ok" =>
                download.returned = download.atStart[CallPath]
    /\ ~download.hit /\ download.pc \in {"lookup", "matching", "sending", "streaming"} =>
          /\ download.cache = download.atStart
          /\ CallPath \notin DOMAIN download.cache
    /\ ~download.hit /\ download.pc = "returned_ok" =>
          /\ download.received = Len(download.body)
          /\ download.returned = Flatten(download.body)
          /\ CallPath \in DOMAIN download.cache
          /\ download.cache[CallPath] = download.returned
          /\ \A q \in DOMAIN download.atStart :
                q \in DOMAIN download.cache /\ download.cache[q] = download.atStart[q]
          /\ download.requests = 2
    /\ /\ ~download.hit
       /\ download.pc = "returned_err"
       /\ download.failedAt \in {"release", "match", "send", "status", "chunk"}
       => /\ download.cache = download.atStart
          /\ CallPath \notin DOMAIN download.cache

\* C18 witness: a second call served from the cache, for a pair that an
\* earlier call downloaded in two chunks
C18_Witness ==
    /\ download.calls = 2
    /\ download.hit
    /\ download.pc = "returned_ok"
    /\ Len(download.returned) = 2

====
